---- MODULE Spec2Model ----
(***************************************************************************)
(* A model of the Markov (normal) algorithm interpreter of src/markov.js:  *)
(* Markov.Statement (a rewrite rule), Markov.Algorithm (the ordered,       *)
(* mutable list of statements) and Markov.Runner (context, steps, done).   *)
(*                                                                         *)
(* A JavaScript string is a sequence of one-character strings.  The        *)
(* alphabet holds an ordinary letter, "a", and "$", a character that       *)
(* Statement.REGEX admits in a token and that String.prototype.search and  *)
(* String.prototype.replace both read specially; "!" is the empty-word     *)
(* marker the Statement constructor strips.                                *)
(***************************************************************************)
EXTENDS Integers, Sequences, FiniteSets, TLC

VARIABLES
  statements,  \* Algorithm.statements
  context,     \* Runner.context
  steps,       \* Runner.steps: records [context, statement]
  done,        \* Runner.done
  pc,          \* "alg": no runner yet; "idle": between calls; "run": inside run()'s loop
  last,        \* the last call made: its name, its arguments, what it returned
  fired,       \* how many step() calls have applied a statement
  entry,       \* inside run(): the context and steps run() was entered with
  got,         \* the array getStatements() returned to the caller last
  args         \* the algorithm's statements and the context the Runner was constructed with

vars == <<statements, context, steps, done, pc, last, fired, entry, got, args>>

-----------------------------------------------------------------------------
(* Bounds *)

\* Longest Algorithm the Runner is constructed over
MaxRules == 2
\* Longest initial context
MaxCtx == 2
\* step() is not taken when it would make the context longer than this
MaxLen == 3
\* step() is not taken when it would make steps longer than this
MaxSteps == 4
\* addStatement is not called on an Algorithm of this length
MaxAlgLen == 3
\* positions passed to addStatement range over -MaxPos .. MaxPos
MaxPos == 3
\* Longest text Statement.compile is called with
MaxText == 5

-----------------------------------------------------------------------------
(* Values *)

\* JavaScript's null (Runner.step's "none applicable", a step's absent statement)
Null == [null |-> TRUE]

\* an argument left out of a call (typeof position === 'undefined')
Undefined == <<>>

\* a value that is no Markov.Statement
NotAStatement == [notAStatement |-> TRUE]

\* JavaScript's undefined as a value: what an array gives where it holds
\* nothing (a hole, pop() or shift() of an empty array)
Missing == [undefined |-> TRUE]

\* the value of entry outside run()
NoEntry == [none |-> TRUE]

\* the value of got before getStatements() is called
NoArray == [none |-> TRUE]

\* the value of args while there is no Runner
NoArgs == [none |-> TRUE]

RECURSIVE StrsOfLen(_, _)
StrsOfLen(alphabet, n) ==
  IF n = 0 THEN {<< >>}
  ELSE {<<c>> \o s : c \in alphabet, s \in StrsOfLen(alphabet, n - 1)}

\* every string over the alphabet of length at most n
Strs(alphabet, n) == UNION {StrsOfLen(alphabet, k) : k \in 0..n}

-----------------------------------------------------------------------------
(* String.prototype and Array.prototype functions the code calls *)

\* s.substring(i, j): the characters at 0-based indices i .. j-1
Substring(s, i, j) == [k \in 1..(j - i) |-> s[i + k]]

\* whether the string p is at 0-based index i of s
OccursAt(s, p, i) ==
  /\ i >= 0
  /\ i + Len(p) <= Len(s)
  /\ \A k \in 1..Len(p) : s[i + k] = p[k]

\* s.indexOf(p): the first index at which p occurs literally, or -1
IndexOf(s, p) ==
  IF \E i \in 0..Len(s) : OccursAt(s, p, i)
  THEN CHOOSE i \in 0..Len(s) :
         /\ OccursAt(s, p, i)
         /\ \A j \in 0..(i - 1) : ~OccursAt(s, p, j)
  ELSE -1

\* new RegExp(p) matched at position pos of s, from the k-th character of p on:
\* "$" asserts the end of the input, any other character of the alphabet is
\* a literal that consumes one character.
RECURSIVE RegExpMatchAt(_, _, _, _)
RegExpMatchAt(s, p, k, pos) ==
  IF k > Len(p) THEN TRUE
  ELSE IF p[k] = "$" THEN pos = Len(s) /\ RegExpMatchAt(s, p, k + 1, pos)
  ELSE /\ pos < Len(s)
       /\ s[pos + 1] = p[k]
       /\ RegExpMatchAt(s, p, k + 1, pos + 1)

\* s.search(p) with p a string: p is converted with new RegExp(p); the index
\* of the first match, or -1
search(s, p) ==
  IF \E i \in 0..Len(s) : RegExpMatchAt(s, p, 1, i)
  THEN CHOOSE i \in 0..Len(s) :
         /\ RegExpMatchAt(s, p, 1, i)
         /\ \A j \in 0..(i - 1) : ~RegExpMatchAt(s, p, 1, j)
  ELSE -1

\* GetSubstitution: the replacement text of s.replace(p, to), where "$$" is
\* "$" and "$&" is the matched text; a "$" before any other character of the
\* alphabet, or at the end, stands for itself.
RECURSIVE GetSubstitution(_, _)
GetSubstitution(to, matched) ==
  IF Len(to) = 0 THEN << >>
  ELSE IF Len(to) >= 2 /\ to[1] = "$" /\ to[2] \in {"$", "&"}
  THEN (IF to[2] = "$" THEN <<"$">> ELSE matched)
       \o GetSubstitution(Substring(to, 2, Len(to)), matched)
  ELSE <<to[1]>> \o GetSubstitution(Substring(to, 1, Len(to)), matched)

\* s.replace(p, to) with p a string: the first literal occurrence of p is
\* replaced by the substitution of to; s itself when p does not occur
replace(s, p, to) ==
  LET i == IndexOf(s, p) IN
  IF i = -1 THEN s
  ELSE LET before == Substring(s, 0, i)
           after == Substring(s, i + Len(p), Len(s))
       IN before \o GetSubstitution(to, p) \o after

\* the index a relative index of slice() stands for in an array of length n
RelativeIndex(k, n) ==
  IF k < 0 THEN (IF n + k < 0 THEN 0 ELSE n + k)
  ELSE (IF k < n THEN k ELSE n)

\* arr.slice(start, end)
Slice(arr, start, end) ==
  LET from == RelativeIndex(start, Len(arr))
      to == RelativeIndex(end, Len(arr))
  IN IF from < to THEN Substring(arr, from, to) ELSE << >>

\* arr.slice(start)
SliceFrom(arr, start) == Slice(arr, start, Len(arr))

-----------------------------------------------------------------------------
(* Markov.Statement *)

\* text.replace('!', ''): the first "!" of the text removed
RemoveFirstMarker(text) ==
  LET i == IndexOf(text, <<"!">>) IN
  IF i = -1 THEN text
  ELSE Substring(text, 0, i) \o Substring(text, i + 1, Len(text))

\* Statement.prototype.setFrom: this.from is from without its first two "!"
\* (both branches of the function store the same clean text)
setFrom(from) == RemoveFirstMarker(RemoveFirstMarker(from))

\* Statement.prototype.setTo: this.to is to without its first two "!"
setTo(to) == RemoveFirstMarker(RemoveFirstMarker(to))

\* new Markov.Statement(from, to, closing)
Statement(from, to, closing) ==
  [from |-> setFrom(from), to |-> setTo(to), closing |-> closing]

\* \s of Statement.REGEX, over the characters of a text
IsSpace(c) == c = " "

\* [^\s!\.] of Statement.REGEX
IsTokenChar(c) == ~IsSpace(c) /\ c # "!" /\ c # "."

\* Whether all of t matches (\!?[^\s!\.]*\!?), a group of Statement.REGEX
IsToken(t) ==
  \E lead \in {0, 1}, trail \in {0, 1} :
    /\ lead + trail <= Len(t)
    /\ lead = 1 => t[1] = "!"
    /\ trail = 1 => t[Len(t)] = "!"
    /\ \A k \in (lead + 1)..(Len(t) - trail) : IsTokenChar(t[k])

\* The 0-based index where \s*, started at index i, stops: the first index
\* from i on that holds no space
RECURSIVE SkipSpaces(_, _)
SkipSpaces(text, i) ==
  IF i < Len(text) /\ IsSpace(text[i + 1]) THEN SkipSpaces(text, i + 1) ELSE i

\* The 0-based index where (\.)*, started at index i, stops
RECURSIVE SkipDots(_, _)
SkipDots(text, i) ==
  IF i < Len(text) /\ text[i + 1] = "." THEN SkipDots(text, i + 1) ELSE i

\* The 0-based index where a run of characters that are no spaces, started
\* at index i, stops
RECURSIVE SkipToSpace(_, _)
SkipToSpace(text, i) ==
  IF i < Len(text) /\ ~IsSpace(text[i + 1]) THEN SkipToSpace(text, i + 1) ELSE i

\* The match of \s*[=-]\s*>\s*(\.)*\s*(\!?[^\s!\.]*\!?)\s*$ from index i of
\* the text: whether there is one, and its groups 2 (set or not) and 3
RestMatch(text, i) ==
  LET sign == SkipSpaces(text, i)
      gt == SkipSpaces(text, sign + 1)
      dots == SkipSpaces(text, gt + 1)
      afterDots == SkipDots(text, dots)
      rhs == SkipSpaces(text, afterDots)
      rhsEnd == SkipToSpace(text, rhs)
      ok == /\ sign < Len(text)
            /\ text[sign + 1] \in {"=", "-"}
            /\ gt < Len(text)
            /\ text[gt + 1] = ">"
            /\ SkipSpaces(text, rhsEnd) = Len(text)
            /\ IsToken(Substring(text, rhs, rhsEnd))
  IN IF ok
     THEN [matched |-> TRUE, closing |-> afterDots > dots,
           rhs |-> Substring(text, rhs, rhsEnd)]
     ELSE [matched |-> FALSE]

\* Statement.REGEX.exec(text): no match, or the groups 1, 2 (set or not) and
\* 3 of the first match in the order backtracking tries them: the longest
\* group 1 after which the rest of the expression matches
RegexExec(text) ==
  LET start == SkipSpaces(text, 0)
      ends == {e \in start..Len(text) :
                 /\ IsToken(Substring(text, start, e))
                 /\ RestMatch(text, e).matched}
  IN IF ends = {} THEN [matched |-> FALSE]
     ELSE LET e == CHOOSE x \in ends : \A y \in ends : y <= x
          IN [matched |-> TRUE, lhs |-> Substring(text, start, e),
              closing |-> RestMatch(text, e).closing,
              rhs |-> RestMatch(text, e).rhs]

\* compile() without the tests for two empty-word markers
CompileNoMarkerTests(text) ==
  LET compiled == RegexExec(text) IN
  IF ~compiled.matched THEN [threw |-> TRUE, error |-> "Invalid statement"]
  ELSE IF Len(compiled.lhs) < 1 THEN [threw |-> TRUE, error |-> "no LHS"]
  ELSE IF Len(compiled.rhs) < 1 THEN [threw |-> TRUE, error |-> "no RHS"]
  ELSE [threw |-> FALSE,
        statement |-> Statement(compiled.lhs, compiled.rhs, compiled.closing)]

\* Statement.compile(text): the error it throws or the Statement it returns
Compile(text) ==
  LET compiled == RegexExec(text) IN
  IF ~compiled.matched THEN [threw |-> TRUE, error |-> "Invalid statement"]
  ELSE IF Len(compiled.lhs) < 1 THEN [threw |-> TRUE, error |-> "no LHS"]
  ELSE IF Len(compiled.rhs) < 1 THEN [threw |-> TRUE, error |-> "no RHS"]
  ELSE IF compiled.lhs = <<"!", "!">>
  THEN [threw |-> TRUE, error |-> "LHS contains two empty word denominators"]
  ELSE IF compiled.rhs = <<"!", "!">>
  THEN [threw |-> TRUE, error |-> "RHS contains two empty word denominators"]
  ELSE [threw |-> FALSE,
        statement |-> Statement(compiled.lhs, compiled.rhs, compiled.closing)]

\* toString() that renders the empty word as nothing
toStringNoMarker(statement) ==
  statement.from
  \o (IF statement.closing THEN <<" ", "-", ">", ".", " ">> ELSE <<" ", "-", ">", " ">>)
  \o statement.to

\* Statement.prototype.toString
toString(statement) ==
  (IF Len(statement.from) < 1 THEN <<"!">> ELSE statement.from)
  \o (IF statement.closing THEN <<" ", "-", ">", ".", " ">> ELSE <<" ", "-", ">", " ">>)
  \o (IF Len(statement.to) < 1 THEN <<"!">> ELSE statement.to)

\* The characters of the texts compile() is called with
TextAlphabet == {"a", "!", " ", "-", "=", ">", "."}

\* The texts compile() is called with
Texts == UNION {[1..n -> TextAlphabet] : n \in 0..MaxText}

\* Statement.compile(text), called by the user
compile(text) ==
  /\ pc = "stmt"
  /\ pc' = "called"
  /\ last' = [op |-> "compile", text |-> text, compiled |-> Compile(text)]
  /\ UNCHANGED <<statements, context, steps, done, fired, entry, got, args>>

\* Statement.compile(statement.toString()), called by the user
roundTrip(statement) ==
  /\ pc = "stmt"
  /\ pc' = "called"
  /\ last' = [op |-> "roundTrip", statement |-> statement,
              text |-> toString(statement),
              compiled |-> Compile(toString(statement))]
  /\ UNCHANGED <<statements, context, steps, done, fired, entry, got, args>>

\* The statements an Algorithm of the model holds, as `lhs -> rhs`:
\*   a -> $$    a ->. !    a -> !    a -> a
\*   $ -> a     $ ->. !    ! -> a    ! ->. $$
Statements ==
  { Statement(<<"a">>, <<"$", "$">>, FALSE),
    Statement(<<"a">>, <<"!">>, TRUE),
    Statement(<<"a">>, <<"!">>, FALSE),
    Statement(<<"a">>, <<"a">>, FALSE),
    Statement(<<"$">>, <<"a">>, FALSE),
    Statement(<<"$">>, <<"!">>, TRUE),
    Statement(<<"!">>, <<"a">>, FALSE),
    Statement(<<"!">>, <<"$", "$">>, TRUE) }

\* The statements the Algorithm operations are called with:
\*   a -> !    $ -> a    ! ->. $$
AlgStatements ==
  { Statement(<<"a">>, <<"!">>, FALSE),
    Statement(<<"$">>, <<"a">>, FALSE),
    Statement(<<"!">>, <<"$", "$">>, TRUE) }

RECURSIVE SeqsOfLen(_, _)
SeqsOfLen(S, n) ==
  IF n = 0 THEN {<< >>}
  ELSE {Append(q, x) : q \in SeqsOfLen(S, n - 1), x \in S}

\* every sequence over S of length at most n
SeqsUpTo(S, n) == UNION {SeqsOfLen(S, k) : k \in 0..n}

-----------------------------------------------------------------------------
(* Markov.Algorithm *)

\* The positions addStatement is called with: left out, or an integer
Positions == {Undefined} \cup {<<p>> : p \in (-MaxPos)..MaxPos}

\* `statement < 0` and `statement > this.statements.length` compare a
\* Statement object with a number: the object converts through toString()
\* ("lhs -> rhs") to NaN, and every comparison with NaN is false.
StatementLessThan(statement, n) == FALSE

StatementGreaterThan(statement, n) == FALSE

\* The array addStatement leaves in this.statements
AddedStatements(stmts, statement, position) ==
  IF \/ position = Undefined
     \/ StatementLessThan(statement, 0)
     \/ StatementGreaterThan(statement, Len(stmts))
  THEN Append(stmts, statement)
  ELSE Slice(stmts, 0, position[1]) \o <<statement>> \o SliceFrom(stmts, position[1])

\* Algorithm.prototype.addStatement(statement, position)
addStatement(statement, position) ==
  /\ pc = "alg"
  /\ Len(statements) < MaxAlgLen
  /\ IF statement = NotAStatement
     THEN /\ last' = [op |-> "addStatement", statement |-> statement,
                      position |-> position, before |-> statements, threw |-> TRUE]
          /\ UNCHANGED statements
     ELSE /\ statements' = AddedStatements(statements, statement, position)
          /\ last' = [op |-> "addStatement", statement |-> statement,
                      position |-> position, before |-> statements, threw |-> FALSE,
                      result |-> "this"]
  /\ UNCHANGED <<context, steps, done, pc, fired, entry, got, args>>

\* removeStatement that pops only when the position is left out
RemovedStatementsNoClamp(stmts, position) ==
  IF position = Undefined
  THEN (IF Len(stmts) = 0 THEN stmts ELSE Slice(stmts, 0, Len(stmts) - 1))
  ELSE IF position[1] < 0
  THEN SliceFrom(stmts, 1)
  ELSE Slice(stmts, 0, position[1]) \o Slice(stmts, 0, position[1] + 1)

\* The array removeStatement leaves in this.statements: after pop(), after
\* shift(), or slice(0, position).concat(slice(0, position + 1))
RemovedStatements(stmts, position) ==
  IF position = Undefined \/ position[1] >= Len(stmts) - 1
  THEN (IF Len(stmts) = 0 THEN stmts ELSE Slice(stmts, 0, Len(stmts) - 1))
  ELSE IF position[1] < 0
  THEN SliceFrom(stmts, 1)
  ELSE Slice(stmts, 0, position[1]) \o Slice(stmts, 0, position[1] + 1)

\* The value removeStatement returns: what pop() or shift() took out, or
\* this.statements[position]
RemovedResult(stmts, position) ==
  IF position = Undefined \/ position[1] >= Len(stmts) - 1
  THEN (IF Len(stmts) = 0 THEN Missing ELSE stmts[Len(stmts)])
  ELSE IF position[1] < 0
  THEN (IF Len(stmts) = 0 THEN Missing ELSE stmts[1])
  ELSE stmts[position[1] + 1]

\* Algorithm.prototype.removeStatement(position)
removeStatement(position) ==
  /\ pc = "alg"
  /\ Len(RemovedStatements(statements, position)) <= MaxAlgLen
  /\ statements' = RemovedStatements(statements, position)
  /\ last' = [op |-> "removeStatement", position |-> position,
              before |-> statements,
              result |-> RemovedResult(statements, position)]
  /\ UNCHANGED <<context, steps, done, pc, fired, entry, got, args>>

\* The array after `this.statements[position] = statement`, position an
\* index from 0 on: an assignment past the end leaves holes before it
AssignedStatements(stmts, statement, position) ==
  [k \in 1..(IF position < Len(stmts) THEN Len(stmts) ELSE position + 1) |->
     IF k = position + 1 THEN statement
     ELSE IF k <= Len(stmts) THEN stmts[k]
     ELSE Missing]

\* this.statements[position], position an index from 0 on
getStatement(stmts, position) ==
  IF position < Len(stmts) THEN stmts[position + 1] ELSE Missing

\* Algorithm.prototype.setStatement(statement, position), position an index
\* from 0 on
setStatement(statement, position) ==
  /\ pc = "alg"
  /\ IF statement = NotAStatement
     THEN /\ last' = [op |-> "setStatement", statement |-> statement,
                      position |-> position, before |-> statements, threw |-> TRUE]
          /\ UNCHANGED statements
     ELSE /\ statements' = AssignedStatements(statements, statement, position)
          /\ last' = [op |-> "setStatement", statement |-> statement,
                      position |-> position, before |-> statements, threw |-> FALSE,
                      result |-> getStatement(statements, position)]
  /\ UNCHANGED <<context, steps, done, pc, fired, entry, got, args>>

\* Algorithm.prototype.getStatements(): a new array of the same elements
getStatements(stmts) == [i \in 1..Len(stmts) |-> stmts[i]]

-----------------------------------------------------------------------------
(* Markov.Runner *)

\* The characters of a context
Alphabet == {"a", "$"}

\* stop() as a toggle of this.done
StoppedToggles(wasDone) == ~wasDone

\* stop() that leaves this.done as it is
StoppedLeavesDone(wasDone) == wasDone

\* Runner.prototype.stop: the value it leaves in this.done
Stopped(wasDone) == TRUE

\* step() without the push of the initial step
WithoutInitialStep(hist, ctx) == hist

\* step(): the steps array after `if (this.steps.length < 1) this.steps.push(...)`
WithInitialStep(hist, ctx) ==
  IF Len(hist) < 1
  THEN Append(hist, [context |-> ctx, statement |-> Null])
  ELSE hist

\* step()'s test of one statement: this.context.search(statement.from) > -1
Applicable(ctx, statement) == search(ctx, statement.from) > -1

\* step()'s for loop: the 1-based index of the statement it breaks at, the
\* first one in array order that is applicable; 0 when it runs to the end
FirstApplicable(ctx, stmts) ==
  IF \E i \in 1..Len(stmts) : Applicable(ctx, stmts[i])
  THEN CHOOSE i \in 1..Len(stmts) :
         /\ Applicable(ctx, stmts[i])
         /\ \A j \in 1..(i - 1) : ~Applicable(ctx, stmts[j])
  ELSE 0

\* step() that stops only when no statement was applicable
ShouldStopOnlyUnacted(acted, statement) == ~acted

\* step() that stops after every call
ShouldStopAlways(acted, statement) == TRUE

\* step(): `if (!acted || statement.closing) this.stop()`
ShouldStop(acted, statement) == ~acted \/ statement.closing

\* step()'s return value: `acted ? statement : null`
StepReturn(acted, statement) == IF acted THEN statement ELSE Null

\* Runner.prototype.step as a function of the runner's fields: the fields it
\* leaves and the value it returns
StepOutcome(stmts, ctx, hist, isDone) ==
  IF isDone
  THEN [context |-> ctx, steps |-> hist, done |-> isDone, acted |-> FALSE,
        result |-> Null]
  ELSE LET hist0 == WithInitialStep(hist, ctx)
           copy == getStatements(stmts)
           i == FirstApplicable(ctx, copy)
           acted == i > 0
           \* the loop variable after the loop: the statement it broke at,
           \* else the last one it looked at, else its initial null
           statement == IF acted THEN copy[i]
                        ELSE IF Len(copy) > 0 THEN copy[Len(copy)]
                        ELSE Null
           ctx1 == IF acted THEN replace(ctx, statement.from, statement.to) ELSE ctx
           hist1 == IF acted
                    THEN Append(hist0, [context |-> ctx1, statement |-> statement])
                    ELSE hist0
       IN [context |-> ctx1,
           steps |-> hist1,
           done |-> IF ShouldStop(acted, statement) THEN Stopped(isDone) ELSE isDone,
           acted |-> acted,
           result |-> StepReturn(acted, statement)]

\* step() that takes the statement it applied out of the algorithm's array
StatementsAfterStepConsumed(stmts, ctx) ==
  LET i == FirstApplicable(ctx, stmts) IN
  IF i = 0 THEN stmts
  ELSE Slice(stmts, 0, i - 1) \o SliceFrom(stmts, i)

\* this.algorithm.statements after step(): step() reads the array that
\* getStatements() returns and assigns nothing of this.algorithm
StatementsAfterStep(stmts, ctx) == stmts

\* The effect of one call of step() on the runner
StepCall ==
  LET r == StepOutcome(statements, context, steps, done) IN
  /\ Len(r.context) <= MaxLen
  /\ Len(r.steps) <= MaxSteps
  /\ context' = r.context
  /\ steps' = r.steps
  /\ done' = r.done
  /\ fired' = IF r.acted THEN fired + 1 ELSE fired
  /\ last' = [op |-> "step", running |-> ~done, before |-> context,
              stepsBefore |-> steps, result |-> r.result]
  /\ statements' = IF done THEN statements ELSE StatementsAfterStep(statements, context)

\* Runner.prototype.step, called by the user of the runner
step ==
  /\ pc = "idle"
  /\ StepCall
  /\ UNCHANGED <<pc, entry, got, args>>

\* Runner.prototype.stop, called by the user of the runner
stop ==
  /\ pc = "idle"
  /\ done' = Stopped(done)
  /\ last' = [op |-> "stop", running |-> ~done, before |-> context,
              stepsBefore |-> steps]
  /\ UNCHANGED <<statements, context, steps, pc, fired, entry, got, args>>

\* Runner.prototype.run, to its loop: `if (this.done) return false;`
runEnter ==
  /\ pc = "idle"
  /\ IF done
     THEN /\ last' = [op |-> "run", running |-> FALSE, before |-> context,
                      stepsBefore |-> steps, returned |-> TRUE, result |-> FALSE]
          /\ UNCHANGED <<pc, entry>>
     ELSE /\ pc' = "run"
          /\ entry' = [context |-> context, steps |-> steps]
          /\ last' = [op |-> "run", running |-> TRUE, before |-> context,
                      stepsBefore |-> steps, returned |-> FALSE]
  /\ UNCHANGED <<statements, context, steps, done, fired, got, args>>

\* run() with the loop condition inverted: `while (this.done)`
LoopAgainInverted(isDone) == isDone

\* Whether run()'s loop goes round again: `while (!this.done)`
LoopAgain(isDone) == ~isDone

\* run(): one turn of `while (!this.done) this.step();`
runLoop ==
  /\ pc = "run"
  /\ LoopAgain(done)
  /\ StepCall
  /\ UNCHANGED <<pc, entry, got, args>>

\* run(): the loop is left, `return true;`
runReturn ==
  /\ pc = "run"
  /\ ~LoopAgain(done)
  /\ pc' = "idle"
  /\ entry' = NoEntry
  /\ last' = [op |-> "run", running |-> TRUE, before |-> entry.context,
              stepsBefore |-> entry.steps, returned |-> TRUE, result |-> TRUE]
  /\ UNCHANGED <<statements, context, steps, done, fired, got, args>>

-----------------------------------------------------------------------------
(* The caller of getStatements() *)

\* getStatements() that returns this.statements itself
ReturnsTheArrayItself == TRUE

\* Whether the array getStatements() returns is this.statements itself:
\* Array.apply([], this.statements) builds a new array
ReturnsOwnArray == FALSE

\* algorithm.getStatements(), called by the user
callGetStatements ==
  /\ pc = "idle"
  /\ got' = [array |-> getStatements(statements)]
  /\ last' = [op |-> "getStatements", result |-> getStatements(statements)]
  /\ UNCHANGED <<statements, context, steps, done, pc, fired, entry, args>>

\* The array after the caller's push(statement), pop() or reverse()
Mutated(arr, kind, statement) ==
  CASE kind = "push" -> Append(arr, statement)
    [] kind = "pop" -> Slice(arr, 0, Len(arr) - 1)
    [] OTHER -> [k \in 1..Len(arr) |-> arr[Len(arr) + 1 - k]]

\* The caller changes the array it has just got from getStatements()
mutateReturned(kind, statement) ==
  /\ pc = "idle"
  /\ last.op = "getStatements"
  /\ got' = [array |-> Mutated(got.array, kind, statement)]
  /\ statements' = IF ReturnsOwnArray THEN Mutated(got.array, kind, statement)
                  ELSE statements
  /\ last' = [op |-> "mutate", kind |-> kind, statement |-> statement,
              before |-> statements]
  /\ UNCHANGED <<context, steps, done, pc, fired, entry, args>>

-----------------------------------------------------------------------------
(* Specifications *)

\* new Markov.Runner(algorithm, context), over an Algorithm built with
\* addStatement and a string context
Init ==
  /\ statements \in SeqsUpTo(Statements, MaxRules)
  /\ context \in Strs(Alphabet, MaxCtx)
  /\ steps = << >>
  /\ done = FALSE
  /\ pc = "idle"
  /\ last = [op |-> "new"]
  /\ fired = 0
  /\ entry = NoEntry
  /\ got = NoArray
  /\ args = [algorithm |-> statements, context |-> context]

Next == step \/ stop \/ runEnter \/ runLoop \/ runReturn

Spec == Init /\ [][Next]_vars

\* The engine with run() running on: `while (!this.done) this.step();` is a
\* synchronous loop, so a turn that can be taken is taken, and the return
\* after the loop is reached
SpecRun == Spec /\ WF_vars(runLoop) /\ WF_vars(runReturn)

\* A Runner, and a caller that reads the algorithm's statements with
\* getStatements() and changes the array it got
NextCopy ==
  \/ step
  \/ callGetStatements
  \/ \E kind \in {"push", "pop", "reverse"}, statement \in AlgStatements :
       mutateReturned(kind, statement)

SpecCopy == Init /\ [][NextCopy]_vars

\* new Markov.Algorithm(): no statements, and no runner
InitAlgorithm ==
  /\ statements = << >>
  /\ context = << >>
  /\ steps = << >>
  /\ done = FALSE
  /\ pc = "alg"
  /\ last = [op |-> "new"]
  /\ fired = 0
  /\ entry = NoEntry
  /\ got = NoArray
  /\ args = NoArgs

NextAlgorithm ==
  \/ \E statement \in AlgStatements \cup {NotAStatement}, position \in Positions :
       addStatement(statement, position)
  \/ \E position \in Positions : removeStatement(position)
  \/ \E statement \in AlgStatements \cup {NotAStatement}, position \in 0..(MaxAlgLen - 1) :
       setStatement(statement, position)

SpecAlgorithm == InitAlgorithm /\ [][NextAlgorithm]_vars

\* The Statements that are validly constructed: those compile() returns,
\* and those of the model's Algorithms
ValidStatements ==
  {Compile(text).statement : text \in {t \in Texts : ~Compile(t).threw}}
    \cup Statements

\* No object yet: one call of Statement.compile follows
InitStatement ==
  /\ statements = << >>
  /\ context = << >>
  /\ steps = << >>
  /\ done = FALSE
  /\ pc = "stmt"
  /\ last = [op |-> "new"]
  /\ fired = 0
  /\ entry = NoEntry
  /\ got = NoArray
  /\ args = NoArgs

\* One call, of compile(text) or of compile(statement.toString())
NextStatement ==
  /\ pc = "stmt"
  /\ \/ \E text \in Texts : compile(text)
     \/ \E statement \in ValidStatements : roundTrip(statement)

SpecStatement == InitStatement /\ [][NextStatement]_vars

-----------------------------------------------------------------------------
(* The terms of the properties *)

\* The pattern occurs in the context as a contiguous substring
Occurs(ctx, pattern) == \E i \in 0..Len(ctx) : OccursAt(ctx, pattern, i)

\* The context with the leftmost occurrence of the pattern replaced by the
\* replacement, every character of it taken as it is
LeftmostRewrite(ctx, pattern, replacement) ==
  LET i == CHOOSE k \in 0..Len(ctx) :
             /\ OccursAt(ctx, pattern, k)
             /\ \A j \in 0..(k - 1) : ~OccursAt(ctx, pattern, j)
  IN Substring(ctx, 0, i) \o replacement \o Substring(ctx, i + Len(pattern), Len(ctx))

\* The least element of a non-empty set of integers
Least(S) == CHOOSE x \in S : \A y \in S : x <= y

\* The sequence with x put at 0-based index idx
InsertAt(q, idx, x) ==
  [k \in 1..(Len(q) + 1) |->
     IF k <= idx THEN q[k] ELSE IF k = idx + 1 THEN x ELSE q[k - 1]]

\* The last call was a step() made while the engine was Running
SteppedWhileRunning == last.op = "step" /\ last.running

\* The final history entry
FinalEntry == steps[Len(steps)]

\* The runner's fields after step() is called again and again until the
\* engine is Halted, at most fuel times
RECURSIVE Drain(_, _, _, _, _)
Drain(stmts, ctx, hist, isDone, fuel) ==
  IF isDone \/ fuel = 0
  THEN [context |-> ctx, steps |-> hist, done |-> isDone]
  ELSE LET r == StepOutcome(stmts, ctx, hist, isDone)
       IN Drain(stmts, r.context, r.steps, r.done, fuel - 1)

-----------------------------------------------------------------------------
(* Properties of Runner.prototype.step *)

\* C1. Priority scan: a step() taken while Running, on a context in which
\* the pattern of some statement occurs, applies the statement of the lowest
\* index among those whose pattern occurs, and appends exactly one step, that
\* of this statement.
C1_PriorityScan ==
  SteppedWhileRunning =>
    LET occurring == {i \in 1..Len(statements) :
                        Occurs(last.before, statements[i].from)}
    IN occurring # {} =>
         /\ last.result = statements[Least(occurring)]
         /\ Len(steps) = Len(WithInitialStep(last.stepsBefore, last.before)) + 1
         /\ FinalEntry.statement = statements[Least(occurring)]

\* C2. Leftmost replacement: when step() applies a statement whose pattern
\* occurs in the context, the new context is the old one with the leftmost
\* occurrence of the pattern replaced by the replacement, taken literally.
C2_LeftmostReplacement ==
  (SteppedWhileRunning /\ last.result # Null) =>
    (Occurs(last.before, last.result.from) =>
       context = LeftmostRewrite(last.before, last.result.from, last.result.to))

\* C3. Halting condition: a step() taken while Running leaves the engine
\* Halted if and only if it applied a terminating statement or applied none.
C3_HaltingCondition ==
  SteppedWhileRunning =>
    (done <=> (IF last.result = Null THEN TRUE ELSE last.result.closing))

\* C3: a step() has applied a terminating statement and the engine is Halted
C3_Witness ==
  /\ SteppedWhileRunning
  /\ last.result # Null
  /\ last.result.closing
  /\ done

\* C4. Halted is terminal: no call makes a Halted engine Running again, and
\* a step() on a Halted engine returns null and leaves context and steps as
\* they were.
C4_HaltedIsTerminal ==
  [][done =>
       /\ done'
       /\ (last'.op = "step" =>
             /\ last'.result = Null
             /\ context' = context
             /\ steps' = steps)]_vars

\* C4: step() has been called on a Halted engine that had applied a statement
C4_Witness ==
  /\ last.op = "step"
  /\ ~last.running
  /\ done
  /\ fired > 0

\* C5 as stated. After a step() halts the engine because no statement was
\* applied, the final history entry has no statement; after it halts the
\* engine with a terminating statement, the final entry has that statement.
C5_AsStated ==
  (SteppedWhileRunning /\ done) =>
    /\ steps # << >>
    /\ IF last.result = Null
       THEN FinalEntry.statement = Null
       ELSE FinalEntry.statement = last.result /\ last.result.closing

\* C5. After a step() halts the engine because no statement was applied, the
\* final history entry has no statement when no statement was ever applied,
\* and otherwise has the statement applied last, which is not terminating;
\* after a step() halts the engine with a terminating statement, the final
\* entry has that statement, which is terminating.
C5_TerminationCause ==
  (SteppedWhileRunning /\ done) =>
    /\ steps # << >>
    /\ IF last.result = Null
       THEN IF fired = 0
            THEN FinalEntry.statement = Null
            ELSE FinalEntry.statement # Null /\ ~FinalEntry.statement.closing
       ELSE FinalEntry.statement = last.result /\ last.result.closing

\* C5: the engine has halted on a step() that applied nothing, after a step
\* that applied a statement
C5_Witness ==
  /\ SteppedWhileRunning
  /\ done
  /\ last.result = Null
  /\ fired > 0

\* C6 as stated. When the engine is Halted, steps has one entry more than
\* the number of statements applied, and the final entry's context is the
\* engine's context.
C6_AsStated ==
  done => (Len(steps) = fired + 1 /\ FinalEntry.context = context)

\* C6. When the engine is Halted and step() was called at least once while
\* it was Running (steps is not empty), steps has one entry more than the
\* number of statements applied, and the final entry's context is the
\* engine's context; an engine halted before any step() has applied nothing.
C6_HistoryGrowth ==
  done =>
    IF steps = << >>
    THEN fired = 0
    ELSE Len(steps) = fired + 1 /\ FinalEntry.context = context

\* C6: the engine is Halted after applying two statements
C6_Witness ==
  /\ done
  /\ fired = 2
  /\ Len(steps) = 3

\* C7. Natural termination: a step() taken while Running on a context in
\* which no statement's pattern occurs returns null, halts the engine and
\* leaves the context unchanged, with an empty Algorithm or not.
C7_NaturalTermination ==
  (/\ SteppedWhileRunning
   /\ \A i \in 1..Len(statements) : ~Occurs(last.before, statements[i].from)) =>
    /\ last.result = Null
    /\ done
    /\ context = last.before

-----------------------------------------------------------------------------
(* Properties of Runner.prototype.run and Runner.prototype.stop *)

\* C8. run() on a Running engine returns true only with the engine Halted,
\* and leaves the context and steps that calling step() until Halted
\* leaves; on a Halted engine it returns false and changes nothing.
C8_RunIsClosureOfStep ==
  (last.op = "run" /\ last.returned) =>
    IF last.running
    THEN LET d == Drain(statements, last.before, last.stepsBefore, FALSE,
                        MaxSteps + 1)
         IN /\ last.result = TRUE
            /\ done
            /\ d.done
            /\ context = d.context
            /\ steps = d.steps
    ELSE /\ last.result = FALSE
         /\ done
         /\ context = last.before
         /\ steps = last.stepsBefore

\* C8: run() has returned after applying at least two statements
C8_Witness ==
  /\ last.op = "run"
  /\ last.returned
  /\ last.running
  /\ Len(steps) >= Len(last.stepsBefore) + 2
  /\ context # last.before

\* C9. stop() leaves the engine Halted from any state and changes neither
\* context nor steps; a second stop() changes nothing of the engine.
C9_StopForcesHalted ==
  [][last'.op = "stop" =>
       /\ done'
       /\ context' = context
       /\ steps' = steps
       /\ (last.op = "stop" => done' = done)]_vars

\* C9: stop() has halted a Running engine between two steps
C9_Witness ==
  /\ last.op = "stop"
  /\ last.running
  /\ done
  /\ Len(steps) >= 2

-----------------------------------------------------------------------------
(* Properties of Markov.Algorithm *)

\* C10. addStatement(statement, position): a position left out or at least
\* the length appends, a negative position puts the statement at index 0,
\* any other position p puts it at index p; the statements already stored
\* keep their order, the length grows by one, the Algorithm is returned.
C10_AddStatement ==
  (last.op = "addStatement" /\ ~last.threw) =>
    LET n == Len(last.before)
        p == last.position
        idx == IF p = Undefined THEN n
               ELSE IF p[1] >= n THEN n
               ELSE IF p[1] < 0 THEN 0
               ELSE p[1]
    IN /\ statements = InsertAt(last.before, idx, last.statement)
       /\ last.result = "this"

\* C11. removeStatement(position) with 0 <= position < length - 1 returns the
\* statement at the position and leaves the statements without that one:
\* the length is one less and the others keep their order.
C11_RemoveStatementInside ==
  (/\ last.op = "removeStatement"
   /\ last.position # Undefined
   /\ last.position[1] >= 0
   /\ last.position[1] < Len(last.before) - 1) =>
    LET p == last.position[1] IN
    /\ last.result = last.before[p + 1]
    /\ Len(statements) = Len(last.before) - 1
    /\ \A k \in 1..Len(statements) :
         statements[k] = IF k <= p THEN last.before[k] ELSE last.before[k + 1]

\* C12. removeStatement at the ends: with the position left out, or at or
\* after the last index, it removes and returns the last statement; with a
\* negative position the first; on an empty Algorithm it returns undefined
\* and the Algorithm stays empty; otherwise the rest keep their order and
\* the length is one less.
C12_RemoveStatementAtEnds ==
  (/\ last.op = "removeStatement"
   /\ \/ last.position = Undefined
      \/ last.position[1] >= Len(last.before) - 1
      \/ last.position[1] < 0) =>
    LET n == Len(last.before) IN
    IF n = 0
    THEN last.result = Missing /\ statements = << >>
    ELSE IF last.position = Undefined \/ last.position[1] >= n - 1
    THEN /\ last.result = last.before[n]
         /\ Len(statements) = n - 1
         /\ \A k \in 1..(n - 1) : statements[k] = last.before[k]
    ELSE /\ last.result = last.before[1]
         /\ Len(statements) = n - 1
         /\ \A k \in 1..(n - 1) : statements[k] = last.before[k + 1]

\* C12: the first of three statements has been removed with a negative position
C12_Witness ==
  /\ last.op = "removeStatement"
  /\ last.position # Undefined
  /\ last.position[1] < 0
  /\ Len(last.before) = 3
  /\ last.result = last.before[1]
  /\ last.before[1] # last.before[2]

\* C13. After any sequence of addStatement, setStatement and removeStatement
\* calls, every index from 0 to length - 1 holds a Statement; a call that
\* throws leaves the statements as they were.
C13_OnlyStatementsStored ==
  /\ \A k \in 1..Len(statements) : statements[k] \in AlgStatements
  /\ (last.op \in {"addStatement", "setStatement"} /\ last.threw) =>
       statements = last.before

-----------------------------------------------------------------------------
(* Properties of the Runner's use of its Algorithm *)

\* C14. The engine never mutates its Ruleset: every step(), run() and stop()
\* call leaves the algorithm's statements as they were.
C14_EngineLeavesRuleset ==
  [][last'.op \in {"step", "run", "stop"} => statements' = statements]_vars

\* C14: a step() has applied a statement of a two-statement Algorithm
C14_Witness ==
  /\ SteppedWhileRunning
  /\ last.result # Null
  /\ Len(statements) = 2

\* C15. getStatements() returns the stored statements in order, and what the
\* caller does to the returned array changes neither the Algorithm's own
\* statements nor the statement a later step() of the engine applies.
C15_IndependentCopy ==
  [][/\ last'.op = "getStatements" =>
          /\ got' = [array |-> statements]
          /\ statements' = statements
     /\ last'.op = "mutate" => statements' = statements
     /\ (last'.op = "step" /\ last'.running) =>
          last'.result = StepOutcome(args.algorithm, context, steps, done).result
    ]_vars

\* C15: the engine has applied a statement after the caller reversed the
\* array it got, whose two statements differ
C15_Witness ==
  /\ SteppedWhileRunning
  /\ last.result # Null
  /\ got # NoArray
  /\ Len(statements) = 2
  /\ statements[1] # statements[2]
  /\ got = [array |-> <<statements[2], statements[1]>>]

\* s without its leading and trailing spaces
TrimSpaces(s) ==
  LET first == SkipSpaces(s, 0)
      ends == {e \in first..Len(s) : SkipSpaces(s, e) = Len(s)}
  IN Substring(s, first, CHOOSE e \in ends : \A x \in ends : e <= x)

\* s without the dots it starts with
DropDots(s) == Substring(s, SkipDots(s, 0), Len(s))

\* A side of a rule as a text may give it: a word of characters that are
\* neither spaces, dots nor markers, with at most one marker before and
\* after it, and not the two markers alone
IsSide(t) == Len(t) >= 1 /\ IsToken(t) /\ t # <<"!", "!">>

\* The text is LHS, "->" or "=>", at most one ".", RHS, with spaces allowed
\* only around these
StatedForm(text) ==
  \E sign \in 1..Len(text) :
    /\ sign < Len(text)
    /\ text[sign] \in {"-", "="}
    /\ text[sign + 1] = ">"
    /\ IsSide(TrimSpaces(Substring(text, 0, sign - 1)))
    /\ LET rest == TrimSpaces(Substring(text, sign + 1, Len(text)))
       IN \/ IsSide(rest)
          \/ Len(rest) >= 1 /\ rest[1] = "." /\ IsSide(TrimSpaces(Tail(rest)))

\* The text is LHS, "-" or "=", ">", any number of ".", RHS, with spaces
\* allowed around these and between the sign and the ">"
AcceptedForm(text) ==
  \E sign \in 1..Len(text), gt \in 1..Len(text) :
    /\ sign < gt
    /\ text[sign] \in {"-", "="}
    /\ text[gt] = ">"
    /\ \A k \in (sign + 1)..(gt - 1) : IsSpace(text[k])
    /\ IsSide(TrimSpaces(Substring(text, 0, sign - 1)))
    /\ IsSide(TrimSpaces(DropDots(TrimSpaces(Substring(text, gt, Len(text))))))

\* C16: compiling the text toString() gives for a validly constructed
\* statement succeeds and returns a statement with the same pattern, the same
\* replacement and the same terminating flag
C16_RoundTrip ==
  last.op = "roundTrip" =>
    /\ ~last.compiled.threw
    /\ last.compiled.statement = last.statement

\* C16 happens: a terminating statement with the empty word as its pattern
\* was rendered with the marker and compiled back
C16_Witness ==
  /\ last.op = "roundTrip"
  /\ last.statement.from = << >>
  /\ last.statement.closing
  /\ last.text[1] = "!"
  /\ ~last.compiled.threw

\* C17 as stated: compile(text) succeeds only for a text of the form LHS,
\* "->" or "=>", an optional ".", RHS, with spaces only around these
C17_AsStated ==
  last.op = "compile" /\ ~last.compiled.threw => StatedForm(last.text)

\* C17: compile(text) succeeds only for a text of the form LHS, "-" or "=",
\* ">", any number of ".", RHS, with spaces around these and between the sign
\* and the ">"; so it fails for a text without an arrow, without a LHS,
\* without a RHS, or with the two markers alone as a side
C17_MalformedRejected ==
  last.op = "compile" /\ ~last.compiled.threw => AcceptedForm(last.text)

\* C17 happens: a text whose left side is the two markers alone has an arrow
\* and a right side, and compile threw
C17_Witness ==
  /\ last.op = "compile"
  /\ last.text = <<"!", "!", "-", ">", "a">>
  /\ last.compiled.threw

-----------------------------------------------------------------------------
(* Properties of the history and of the patterns *)

\* C18. Applicability is plain substring containment: a step() taken while
\* Running treats a statement as applicable if and only if its pattern occurs
\* in the context as a contiguous substring, every character taken as it is;
\* so the pattern of the statement step() returns occurs in the old context.
C18_PlainContainment ==
  SteppedWhileRunning =>
    /\ \A i \in 1..Len(statements) :
         Applicable(last.before, statements[i])
           <=> Occurs(last.before, statements[i].from)
    /\ last.result # Null => Occurs(last.before, last.result.from)

\* The history is empty, or starts with the initial context and no statement,
\* goes on with entries that each hold a statement and the leftmost rewrite
\* by it of the entry before, and ends with the engine's context
HistoryStructure ==
  steps # << >> =>
    /\ steps[1] = [context |-> args.context, statement |-> Null]
    /\ \A k \in 2..Len(steps) :
         /\ steps[k].statement # Null
         /\ Occurs(steps[k - 1].context, steps[k].statement.from)
         /\ steps[k].context =
              LeftmostRewrite(steps[k - 1].context, steps[k].statement.from,
                              steps[k].statement.to)
    /\ FinalEntry.context = context

\* Every entry of the history p is the entry of q at the same index
IsPrefix(p, q) ==
  /\ Len(p) <= Len(q)
  /\ \A k \in 1..Len(p) : q[k] = p[k]

\* C19. History structure: in every state the engine reaches, the history is
\* empty or starts with the entry of the initial context and no statement,
\* every later entry has a statement and the context that the leftmost
\* rewrite by this statement makes of the context of the entry before, and
\* the last entry has the engine's context; no call changes or removes an
\* entry that is recorded.
C19_HistoryStructure ==
  [][HistoryStructure' /\ IsPrefix(steps, steps')]_vars

\* C20. A statement with the empty word as its pattern is always applicable:
\* with one in the Algorithm, every statement of this kind is applicable in
\* the context of a step() taken while Running, the step() does not return
\* null, it leaves the engine Halted only by a terminating statement, and
\* when it applies a statement of this kind, the new context is the
\* replacement followed by the old context.
C20_EmptyPatternApplies ==
  (/\ SteppedWhileRunning
   /\ \E i \in 1..Len(statements) : statements[i].from = << >>) =>
    /\ \A i \in 1..Len(statements) :
         statements[i].from = << >> => Applicable(last.before, statements[i])
    /\ last.result # Null
    /\ done => last.result.closing
    /\ last.result.from = << >> => context = last.result.to \o last.before

-----------------------------------------------------------------------------
(* Progress of Runner.prototype.run *)

\* No statement's pattern occurs in the context
NoPatternOccurs ==
  \A i \in 1..Len(statements) : ~Occurs(context, statements[i].from)

\* run() is in its loop, and the first statement whose pattern occurs in the
\* context is not terminating and has its pattern as its replacement
LoopsInPlace ==
  /\ pc = "run"
  /\ ~done
  /\ ~NoPatternOccurs
  /\ LET occurring == {i \in 1..Len(statements) :
                         Occurs(context, statements[i].from)}
         statement == statements[Least(occurring)]
     IN ~statement.closing /\ statement.from = statement.to

\* A step() that applies a statement that is not terminating leaves the
\* engine Running and appends one entry, of this statement and the new
\* context, whether the context has changed or not
AppliedStepKeepsRunning ==
  [][(/\ last'.op = "step"
      /\ last'.running
      /\ last'.result # Null
      /\ ~last'.result.closing) =>
       /\ ~done'
       /\ steps' = Append(WithInitialStep(steps, context),
                          [context |-> context', statement |-> last'.result])
    ]_vars

\* run() on a context that its first occurring statement rewrites to itself
\* is never Halted
RunInPlaceNeverHalts == [](LoopsInPlace => [](~done))

\* run() is Halted by the step() that applies a terminating statement
RunHaltsAtTerminating ==
  [][(/\ pc = "run"
      /\ last'.op = "step"
      /\ last'.result # Null
      /\ last'.result.closing) => done']_vars

\* The turn of run()'s loop taken on a context in which no pattern occurs
\* leaves the engine Halted
RunTurnHaltsWithoutPattern ==
  [][(/\ pc = "run"
      /\ ~done
      /\ NoPatternOccurs
      /\ last'.op = "step") => done']_vars

\* run() on a context in which no pattern occurs gets Halted
RunHaltsWithoutPattern == (pc = "run" /\ ~done /\ NoPatternOccurs) ~> done

\* C21. No non-progress detection: a step() that applies a statement that is
\* not terminating leaves the engine Running and appends a history entry,
\* also when the context stays what it was; run() on a context that the
\* first occurring statement rewrites to itself is never Halted; and run()
\* does get Halted when a terminating statement is applied or when the
\* context is one in which no pattern occurs, by the loop turn taken on it.
C21_NoProgressDetection ==
  /\ AppliedStepKeepsRunning
  /\ RunInPlaceNeverHalts
  /\ RunHaltsAtTerminating
  /\ RunTurnHaltsWithoutPattern
  /\ RunHaltsWithoutPattern

=============================================================================
